---- MODULE Spec2Model ----
(***************************************************************************)
(* The catalog loader of streamflixx (src/hooks/useStreams.ts) and the     *)
(* page that drives it (src/pages/Index.tsx, src/components/Header.tsx).   *)
(*                                                                         *)
(* loadStreams is an async function: it runs synchronously up to its first *)
(* await (fetch), again up to its second await (response.json()), and then *)
(* to its end.  Each of these run-to-completion pieces is one action; the   *)
(* state setters called inside one piece take effect together.             *)
(***************************************************************************)
EXTENDS Naturals, Sequences, FiniteSets

\* Number of load cycles that may be in flight at once.
MaxCycles == 2
\* Longest response array the catalog source returns.
MaxLen == 2

Cycles == 1..MaxCycles

(***************************************************************************)
(* JavaScript values as they come out of response.json().  Every value is  *)
(* a record of the same shape so that values of different kinds compare.   *)
(***************************************************************************)
Undefined == [type |-> "undefined", val |-> ""]
Str(s) == [type |-> "string", val |-> s]
Num(n) == [type |-> "number", val |-> n]

\* An object literal with the three properties the loader reads; a property
\* that is missing reads as undefined.
Obj(t, i, s) == [type |-> "object", title |-> t, image |-> i, stream |-> s]
\* A value that is not a plain object: null, a nested array, a number, a string.
NonObj(k) == [type |-> k, title |-> Undefined, image |-> Undefined, stream |-> Undefined]

EntryA == Obj(Str("A"), Str("a.jpg"), Str("a.mp4"))
EntryB == Obj(Str("B"), Str("b.jpg"), Str("b.m3u8"))
\* {title: "B"}: image and stream are missing.
TitleOnly == Obj(Str("B"), Undefined, Undefined)
\* {title: 7, image: "c.jpg", stream: "c.mp4"}: a field that is not a string.
NumTitle == Obj(Num("7"), Str("c.jpg"), Str("c.mp4"))
NullValue == NonObj("null")
NestedArray == NonObj("array")
Scalar == NonObj("number")

\* The elements a response array is built from.
Elements == {EntryA, EntryB, TitleOnly, NumTitle, NullValue, NestedArray, Scalar}

SeqsUpTo(S, n) == UNION {[1..k -> S] : k \in 0..n}

\* A parsed response body: an array of elements, or a value of another shape.
ArrayBody(items) == [type |-> "array", items |-> items]
OtherBody(k) == [type |-> k, items |-> <<>>]
ArrayBodies == {ArrayBody(items) : items \in SeqsUpTo(Elements, MaxLen)}
NonArrayBodies == {OtherBody(k) : k \in {"object", "number", "string", "null"}}
Bodies == ArrayBodies \cup NonArrayBodies

\* typeof v
TypeOf(v) == IF v.type \in {"null", "array"} THEN "object" ELSE v.type

\* A shape test that lets objects and null through: typeof data === 'object'.
IsArray_TypeofObject(data) == TypeOf(data) = "object"

\* Array.isArray(data)
IsArray(data) == data.type = "array"

\* Reading a property of null throws a TypeError; of anything else it yields
\* the property (undefined when there is none).
ReadThrows(v) == v.type = "null"

\* A callback that tests the title alone.
FilterCallback_TitleOnly(stream) ==
    IF TypeOf(stream) # "object" THEN "false"
    ELSE IF ReadThrows(stream) THEN "throws"
    ELSE IF TypeOf(stream.title) # "string" THEN "false"
    ELSE "true"

(***************************************************************************)
(* The filter callback of loadStreams, evaluated left to right with &&'s   *)
(* short circuit: "true", "false", or "throws" when it reads .title of     *)
(* null.                                                                   *)
(***************************************************************************)
FilterCallback(stream) ==
    IF TypeOf(stream) # "object" THEN "false"
    ELSE IF ReadThrows(stream) THEN "throws"
    ELSE IF TypeOf(stream.title) # "string" THEN "false"
    ELSE IF TypeOf(stream.image) # "string" THEN "false"
    ELSE IF TypeOf(stream.stream) # "string" THEN "false"
    ELSE "true"

\* data.filter(callback): the retained elements in order, or an exception
\* as soon as the callback throws.
RECURSIVE FilterFrom(_, _, _)
FilterFrom(items, i, kept) ==
    IF i > Len(items) THEN [threw |-> FALSE, value |-> kept]
    ELSE LET r == FilterCallback(items[i]) IN
         IF r = "throws" THEN [threw |-> TRUE, value |-> <<>>]
         ELSE FilterFrom(items, i + 1, IF r = "true" THEN Append(kept, items[i]) ELSE kept)

FilterStreams(items) == FilterFrom(items, 1, <<>>)

(***************************************************************************)
(* Messages.                                                               *)
(***************************************************************************)
\* error === null
Null == "<null>"
MsgNotOk == "Failed to load streams data"
MsgInvalidFormat == "Invalid streams data format"
MsgNoValid == "No valid streams found"
MsgDefault == "Failed to load streams"
\* The messages of the errors the platform raises: fetch's network TypeError,
\* response.json()'s SyntaxError, and the TypeError of reading .title of null.
MsgNetwork == "Failed to fetch"
MsgSyntax == "Unexpected token in JSON"
MsgNullRead == "Cannot read properties of null (reading 'title')"

\* A thrown value: an Error with a message, or something that is not an Error.
ErrorOf(m) == [isError |-> TRUE, message |-> m]
NotAnError == [isError |-> FALSE, message |-> ""]

\* What fetch() may reject with, and what response.json() may reject with.
FetchRejections == {ErrorOf(MsgNetwork), NotAnError}
JsonRejections == {ErrorOf(MsgSyntax)}

\* A handler without the fallback: setError(err.message), which is undefined
\* for a thrown value that is not an Error.
CatchMessage_NoFallback(err) == IF err.isError THEN err.message ELSE Null

\* A handler that reports the fixed text whatever was thrown.
CatchMessage_Fixed(err) == MsgDefault

\* err instanceof Error ? err.message : 'Failed to load streams'
CatchMessage(err) == IF err.isError THEN err.message ELSE MsgDefault

(***************************************************************************)
(* What the code between the second await and the state setters computes   *)
(* from the parsed body: the exception it throws (a body that is not an    *)
(* array, a filter callback that throws) or the list it is to publish.     *)
(***************************************************************************)
Throws(err) == [threw |-> TRUE, err |-> err, value |-> <<>>]
Yields(validStreams) == [threw |-> FALSE, err |-> NotAnError, value |-> validStreams]

Validated(data) ==
    IF ~IsArray(data) THEN Throws(ErrorOf(MsgInvalidFormat))
    ELSE LET r == FilterStreams(data.items) IN
         IF r.threw THEN Throws(ErrorOf(MsgNullRead)) ELSE Yields(r.value)

\* The results of Validated over all the bodies the source may return.
Validations == {Validated(data) : data \in Bodies}

(***************************************************************************)
(* State.                                                                  *)
(*   streams, loading, error   the three useState cells of useStreams      *)
(*   selectedStream            the useState cell of Index (null: no player)*)
(*   mounted                   whether the mount effect of useStreams ran   *)
(*   pc[c]                     where load cycle c is: "idle" (not running), *)
(*                             "fetching" (awaiting fetch), "parsing"      *)
(*                             (awaiting response.json())                  *)
(*   toasted                   the toasts the last step emitted, in order   *)
(*   source                    the body /streams.json holds when the        *)
(*                             catalog source is stable; read only by the   *)
(*                             steps of the stable-source scenario          *)
(* History variables, written but never read by the actions:               *)
(*   lastOutcome               how the most recently completed cycle ended: *)
(*                             "none", "ok", "empty" or "fail"             *)
(*   failedSinceStart          whether a cycle has ended "empty" or "fail"  *)
(*                             since the most recent start of a cycle      *)
(***************************************************************************)
VARIABLES streams, loading, error, selectedStream, mounted, pc, toasted,
          source, lastOutcome, failedSinceStart

vars == <<streams, loading, error, selectedStream, mounted, pc, toasted,
          source, lastOutcome, failedSinceStart>>

ToastRefreshing == "Refreshing..."
ToastNoContent == "No Content"
ToastLoadingError == "Loading Error"

\* A loader created with useState(false) for loading.
InitLoader_NotLoading ==
    /\ streams = <<>>
    /\ loading = FALSE
    /\ error = Null
    /\ selectedStream = NullValue
    /\ mounted = FALSE
    /\ pc = [c \in Cycles |-> "idle"]
    /\ toasted = <<>>
    /\ lastOutcome = "none"
    /\ failedSinceStart = FALSE

\* useState<Stream[]>([]), useState(true), useState<string | null>(null);
\* useState<Stream | null>(null) in Index.  No effect has run yet.
InitLoader ==
    /\ streams = <<>>
    /\ loading = TRUE
    /\ error = Null
    /\ selectedStream = NullValue
    /\ mounted = FALSE
    /\ pc = [c \in Cycles |-> "idle"]
    /\ toasted = <<>>
    /\ lastOutcome = "none"
    /\ failedSinceStart = FALSE

\* The catalog source is not held to any one body.
Init == InitLoader /\ source = ArrayBody(<<>>)

InFlight(c) == pc[c] # "idle"
SomeInFlight == \E c \in Cycles : InFlight(c)
SomeIdle == \E c \in Cycles : ~InFlight(c)
\* The cycle a new call of loadStreams becomes: cycles carry no identity in
\* the code, so the lowest idle one is taken.
NewCycle == CHOOSE c \in Cycles : ~InFlight(c) /\ \A d \in Cycles : ~InFlight(d) => c <= d

(***************************************************************************)
(* loadStreams up to its first await: setLoading(true), setError(null),    *)
(* fetch('/streams.json').  streams is not written.                        *)
(***************************************************************************)
\* A start that forgets setLoading(true).
LoadingOnStart_Missing == loading
LoadingOnStart == TRUE
\* A start that forgets setError(null).
ErrorOnStart_Kept == error
ErrorOnStart == Null
\* A start that empties the list: setStreams([]).
StreamsOnStart_Cleared == <<>>
StreamsOnStart == streams

LoadStreamsBegin(c) ==
    /\ ~InFlight(c)
    /\ loading' = LoadingOnStart
    /\ error' = ErrorOnStart
    /\ streams' = StreamsOnStart
    /\ pc' = [pc EXCEPT ![c] = "fetching"]
    /\ failedSinceStart' = FALSE
    /\ UNCHANGED <<lastOutcome, source>>

\* A loader that counts its cycles: loading stays true at the end of a cycle
\* while another one is in flight.
LoadingAfterFinally_Counted == Cardinality({c \in Cycles : InFlight(c)}) > 1

\* A cycle whose end leaves loading as it is.
LoadingAfterFinally_Skipped == loading
\* finally { setLoading(false) }
LoadingAfterFinally == FALSE

\* A catch block that records the message and issues the request again.
Caught_Retries(c, err) ==
    /\ error' = CatchMessage(err)
    /\ toasted' = <<ToastLoadingError>>
    /\ loading' = loading
    /\ pc' = [pc EXCEPT ![c] = "fetching"]
    /\ lastOutcome' = "fail"
    /\ failedSinceStart' = TRUE
    /\ UNCHANGED <<streams, selectedStream, mounted, source>>

\* A catch block that records the message without a toast.
Caught_Silent(c, err) ==
    /\ error' = CatchMessage(err)
    /\ toasted' = <<>>
    /\ loading' = LoadingAfterFinally
    /\ pc' = [pc EXCEPT ![c] = "idle"]
    /\ lastOutcome' = "fail"
    /\ failedSinceStart' = TRUE
    /\ UNCHANGED <<streams, selectedStream, mounted, source>>

(***************************************************************************)
(* catch (err) { setError(errorMessage); toast("Loading Error") } finally  *)
(* { setLoading(false) }: the cycle ends, streams is not written.          *)
(***************************************************************************)
Caught(c, err) ==
    /\ error' = CatchMessage(err)
    /\ toasted' = <<ToastLoadingError>>
    /\ loading' = LoadingAfterFinally
    /\ pc' = [pc EXCEPT ![c] = "idle"]
    /\ lastOutcome' = "fail"
    /\ failedSinceStart' = TRUE
    /\ UNCHANGED <<streams, selectedStream, mounted, source>>

\* A publication that never writes error, an empty list included.
ErrorAfterPublish_NeverSet(validStreams) == error

\* What setError is called with after setStreams(validStreams): error is
\* written only when validStreams is empty.
ErrorAfterPublish(validStreams) == IF Len(validStreams) = 0 THEN MsgNoValid ELSE error

\* A publication that closes the player when the new list no longer holds
\* the selected stream.
Published_ClosesPlayer(c, validStreams) ==
    /\ streams' = validStreams
    /\ error' = ErrorAfterPublish(validStreams)
    /\ toasted' = IF Len(validStreams) = 0 THEN <<ToastNoContent>> ELSE <<>>
    /\ loading' = LoadingAfterFinally
    /\ pc' = [pc EXCEPT ![c] = "idle"]
    /\ lastOutcome' = IF Len(validStreams) = 0 THEN "empty" ELSE "ok"
    /\ failedSinceStart' = (failedSinceStart \/ Len(validStreams) = 0)
    /\ selectedStream' =
          IF \E i \in 1..Len(validStreams) : validStreams[i] = selectedStream
          THEN selectedStream ELSE NullValue
    /\ UNCHANGED <<mounted, source>>

\* A publication that adds to the list instead of replacing it:
\* setStreams(prev => [...prev, ...validStreams]).
Published_Appends(c, validStreams) ==
    /\ streams' = streams \o validStreams
    /\ error' = ErrorAfterPublish(validStreams)
    /\ toasted' = IF Len(validStreams) = 0 THEN <<ToastNoContent>> ELSE <<>>
    /\ loading' = LoadingAfterFinally
    /\ pc' = [pc EXCEPT ![c] = "idle"]
    /\ lastOutcome' = IF Len(validStreams) = 0 THEN "empty" ELSE "ok"
    /\ failedSinceStart' = (failedSinceStart \/ Len(validStreams) = 0)
    /\ UNCHANGED <<selectedStream, mounted, source>>

(***************************************************************************)
(* setStreams(validStreams); if it is empty, setError('No valid streams    *)
(* found') and toast("No Content"); finally { setLoading(false) }.         *)
(***************************************************************************)
Published(c, validStreams) ==
    /\ streams' = validStreams
    /\ error' = ErrorAfterPublish(validStreams)
    /\ toasted' = IF Len(validStreams) = 0 THEN <<ToastNoContent>> ELSE <<>>
    /\ loading' = LoadingAfterFinally
    /\ pc' = [pc EXCEPT ![c] = "idle"]
    /\ lastOutcome' = IF Len(validStreams) = 0 THEN "empty" ELSE "ok"
    /\ failedSinceStart' = (failedSinceStart \/ Len(validStreams) = 0)
    /\ UNCHANGED <<selectedStream, mounted, source>>

\* await fetch(...) rejects with err.
FetchRejects(c, err) ==
    /\ pc[c] = "fetching"
    /\ Caught(c, err)

\* await fetch(...) resolves; if (!response.ok) throw new Error(...),
\* otherwise response.json() is called and awaited.
FetchResolves(c, ok) ==
    /\ pc[c] = "fetching"
    /\ IF ok
       THEN /\ pc' = [pc EXCEPT ![c] = "parsing"]
            /\ toasted' = <<>>
            /\ UNCHANGED <<streams, loading, error, selectedStream, mounted,
                           source, lastOutcome, failedSinceStart>>
       ELSE Caught(c, ErrorOf(MsgNotOk))

\* await response.json() rejects with err (the body is not JSON).
JsonRejects(c, err) ==
    /\ pc[c] = "parsing"
    /\ Caught(c, err)

\* The rest of loadStreams once the body has been validated with result v:
\* the catch block if it threw, the publication otherwise, then finally.
Completes(c, v) ==
    /\ pc[c] = "parsing"
    /\ IF v.threw THEN Caught(c, v.err) ELSE Published(c, v.value)

\* await response.json() resolves with data: the Array.isArray test, the
\* filter, and the publication, to the end of loadStreams.
JsonResolves(c, data) == Completes(c, Validated(data))

FetchSettles(c) ==
    \/ \E err \in FetchRejections : FetchRejects(c, err)
    \/ \E ok \in BOOLEAN : FetchResolves(c, ok)

JsonSettles(c) ==
    \/ \E err \in JsonRejections : JsonRejects(c, err)
    \/ \E v \in Validations : Completes(c, v)

(***************************************************************************)
(* The callers of loadStreams that useStreams itself provides.             *)
(***************************************************************************)
\* useEffect(() => { loadStreams() }, [loadStreams]): once, after the first
\* render (loadStreams is stable, toast being stable).
Mount ==
    /\ ~mounted
    /\ SomeIdle
    /\ mounted' = TRUE
    /\ LoadStreamsBegin(NewCycle)
    /\ toasted' = <<>>
    /\ UNCHANGED selectedStream

\* retryLoad: loadStreams itself, handed to the consumer.
RetryLoad ==
    /\ SomeIdle
    /\ LoadStreamsBegin(NewCycle)
    /\ toasted' = <<>>
    /\ UNCHANGED <<selectedStream, mounted>>

\* A refresh that does nothing while a cycle is in flight.
RefreshStreams_Guarded ==
    /\ ~SomeInFlight
    /\ SomeIdle
    /\ toasted' = <<ToastRefreshing>>
    /\ LoadStreamsBegin(NewCycle)
    /\ UNCHANGED <<selectedStream, mounted>>

\* refreshStreams: toast("Refreshing..."), then loadStreams(), not awaited.
RefreshStreams ==
    /\ SomeIdle
    /\ toasted' = <<ToastRefreshing>>
    /\ LoadStreamsBegin(NewCycle)
    /\ UNCHANGED <<selectedStream, mounted>>

(***************************************************************************)
(* The loader with any consumer: retryLoad and refreshStreams may be       *)
(* called at any time, also while a cycle is in flight.                    *)
(***************************************************************************)
Next ==
    \/ Mount
    \/ RetryLoad
    \/ RefreshStreams
    \/ \E c \in Cycles : FetchSettles(c)
    \/ \E c \in Cycles : JsonSettles(c)

Spec == Init /\ [][Next]_vars

\* Every fetch and every response.json() eventually resolves or rejects.
FairSpec ==
    /\ Spec
    /\ \A c \in Cycles : WF_vars(FetchSettles(c)) /\ WF_vars(JsonSettles(c))

(***************************************************************************)
(* The page: what Index and Header render from the loader's state, and the *)
(* controls they offer.                                                    *)
(***************************************************************************)
\* A string in a condition: null and '' are falsy.
Truthy(e) == e \notin {Null, ""}

\* A button without the disabled flag.
HeaderRefreshEnabled_Always == TRUE

\* A button whose disabled flag is inverted: disabled={!isLoading}.
HeaderRefreshEnabled_Inverted == loading

\* <Button onClick={onRefresh} disabled={isLoading}>
HeaderRefreshEnabled == ~loading
\* {error && !loading && ( ... Try Again ... )}
ErrorPanelShown == Truthy(error) /\ ~loading
\* {loading && ( ... skeletons ... )}
SkeletonShown == loading
\* A grid whose condition leaves out !error.
GridShown_IgnoresError == ~loading /\ Len(streams) > 0

\* {!loading && !error && streams.length > 0 && ( ... grid ... )}
GridShown == ~loading /\ ~Truthy(error) /\ Len(streams) > 0
\* {!loading && !error && streams.length === 0 && ( ... Refresh Library ... )}
EmptyViewShown == ~loading /\ ~Truthy(error) /\ Len(streams) = 0

ClickRefresh == HeaderRefreshEnabled /\ RefreshStreams
ClickTryAgain == ErrorPanelShown /\ RefreshStreams
ClickRefreshLibrary == EmptyViewShown /\ RefreshStreams

\* onClick={() => onPlay(stream)} on the card of streams[i]: handlePlayStream.
HandlePlayStream(i) ==
    /\ GridShown
    /\ i \in 1..Len(streams)
    /\ selectedStream' = streams[i]
    /\ toasted' = <<>>
    /\ UNCHANGED <<streams, loading, error, mounted, pc, source, lastOutcome,
                   failedSinceStart>>

\* onClose of the player (its X button or Escape): handleClosePlayer.
HandleClosePlayer ==
    /\ selectedStream # NullValue
    /\ selectedStream' = NullValue
    /\ toasted' = <<>>
    /\ UNCHANGED <<streams, loading, error, mounted, pc, source, lastOutcome,
                   failedSinceStart>>

\* The loader driven by the page alone.  ClickRefreshLibrary is left out: the
\* empty view is never shown, so the button cannot be clicked.
PageNext ==
    \/ Mount
    \/ ClickRefresh
    \/ ClickTryAgain
    \/ \E i \in 1..MaxLen : HandlePlayStream(i)
    \/ HandleClosePlayer
    \/ \E c \in Cycles : FetchSettles(c)
    \/ \E c \in Cycles : JsonSettles(c)

PageSpec == Init /\ [][PageNext]_vars

(***************************************************************************)
(* The stable-source scenario: /streams.json holds one body, source, every *)
(* request succeeds with it, and after the automatic load the consumer     *)
(* calls refreshStreams twice in immediate succession, the second call     *)
(* being the very next step after the first.                               *)
(***************************************************************************)
InFlightCycles == {c \in Cycles : InFlight(c)}

StableInit == InitLoader /\ source \in Bodies

\* refreshStreams() on a loader at rest.
FirstRefresh ==
    /\ mounted
    /\ InFlightCycles = {}
    /\ RefreshStreams

\* refreshStreams() again, right after the first call (whose toast is the
\* last thing that happened) and while its cycle is in flight.
SecondRefresh ==
    /\ toasted = <<ToastRefreshing>>
    /\ Cardinality(InFlightCycles) = 1
    /\ RefreshStreams

\* The request succeeds, and the body parses to source.
StableFetchSettles(c) == FetchResolves(c, TRUE)
StableJsonSettles(c) == JsonResolves(c, source)

StableNext ==
    \/ Mount
    \/ FirstRefresh
    \/ SecondRefresh
    \/ \E c \in Cycles : StableFetchSettles(c)
    \/ \E c \in Cycles : StableJsonSettles(c)

StableSpec == StableInit /\ [][StableNext]_vars

StableFairSpec ==
    /\ StableSpec
    /\ \A c \in Cycles : WF_vars(StableFetchSettles(c)) /\ WF_vars(StableJsonSettles(c))

(***************************************************************************)
(* The specification's vocabulary, used by the properties below.           *)
(***************************************************************************)
\* The CatalogEntry validity rule: title, image and stream are all present
\* and are text.
SatisfiesValidityRule(e) ==
    /\ e.type = "object"
    /\ e.title.type = "string"
    /\ e.image.type = "string"
    /\ e.stream.type = "string"

ValidEntries(items) == SelectSeq(items, SatisfiesValidityRule)

\* Response arrays all of whose elements are objects.
ObjectArrays == {b \in ArrayBodies : \A i \in 1..Len(b.items) : b.items[i].type = "object"}

\* Some cycle ends in this step.
CycleCompletes == \E c \in Cycles : InFlight(c) /\ pc'[c] = "idle"
AllIdle == \A c \in Cycles : ~InFlight(c)

\* C1: for a response that is an array of objects, the cycle publishes
\* exactly the entries satisfying the validity rule, in the order of the
\* response, and lastError is set at the end of the cycle iff there is none.
C1_ValidEntriesPublished ==
    [][\A c \in Cycles : \A data \in ObjectArrays :
          JsonResolves(c, data) =>
             /\ streams' = ValidEntries(data.items)
             /\ (error' # Null) <=> (Len(ValidEntries(data.items)) = 0)]_vars

\* A cycle has published B then A, in the order of a response [B, A].
C1_Witness ==
    /\ lastOutcome = "ok"
    /\ AllIdle
    /\ streams = <<EntryB, EntryA>>
    /\ error = Null

\* C2: a transport failure (fetch rejects, or the status is not OK) ends the
\* cycle with lastError set to the transport message and with entries equal
\* to their value before the cycle started: no step from the start of the
\* cycle to its end writes entries.
C2_TransportFailure ==
    [][/\ \A c \in Cycles :
            /\ FetchRejects(c, ErrorOf(MsgNetwork)) =>
                  error' = "Failed to fetch" /\ streams' = streams
            /\ FetchRejects(c, NotAnError) =>
                  error' = "Failed to load streams" /\ streams' = streams
            /\ FetchResolves(c, FALSE) =>
                  error' = "Failed to load streams data" /\ streams' = streams
       /\ (\E c \in Cycles : pc'[c] # "idle") => streams' = streams]_vars

\* A refresh failed in transport after a load had published entries.
C2_Witness ==
    /\ lastOutcome = "fail"
    /\ AllIdle
    /\ error = MsgNotOk
    /\ streams = <<EntryA, EntryB>>

\* C3: a response body that is not an array ends the cycle with lastError =
\* 'Invalid streams data format' and with entries equal to their value
\* before the cycle started.
C3_FormatFailure ==
    [][/\ \A c \in Cycles : \A data \in NonArrayBodies :
            JsonResolves(c, data) =>
               error' = "Invalid streams data format" /\ streams' = streams
       /\ (\E c \in Cycles : pc'[c] # "idle") => streams' = streams]_vars

\* A refresh got a non-array body after a load had published an entry.
C3_Witness ==
    /\ lastOutcome = "fail"
    /\ AllIdle
    /\ error = MsgInvalidFormat
    /\ streams = <<EntryA>>

\* C4: every started cycle eventually completes, and the step that completes
\* it sets isLoading to false, whichever way the cycle ends (given that every
\* fetch and every body parse settles: FairSpec).
C4_CycleTerminates ==
    /\ \A c \in Cycles : InFlight(c) ~> (~InFlight(c) /\ ~loading)
    /\ [][CycleCompletes => loading' = FALSE]_vars

\* A cycle that threw while filtering (a null element) has ended, isLoading
\* is false.
C4_Witness ==
    /\ lastOutcome = "fail"
    /\ error = MsgNullRead
    /\ AllIdle
    /\ ~loading

TransportMessages == {MsgNetwork, MsgNotOk, MsgDefault}
FormatMessages == {MsgInvalidFormat, MsgSyntax}

\* C6: once all overlapping cycles have completed, the published state is
\* the one the last cycle to complete publishes: valid entries and no
\* lastError, or no entries and 'No valid streams found', or a failure
\* message.
C6_LastCompletedWins ==
    AllIdle =>
       /\ lastOutcome = "ok" => (Len(streams) > 0 /\ error = Null)
       /\ lastOutcome = "empty" => (Len(streams) = 0 /\ error = MsgNoValid)
       /\ lastOutcome = "fail" => (error \in TransportMessages \cup FormatMessages
                                                \cup {MsgNullRead})

\* C7: after every completed cycle exactly one of (a) entries non-empty and
\* lastError absent, (b) entries empty and lastError 'No valid streams
\* found', (c) lastError a transport or format message, holds.
C7_ExactlyOnePostcondition ==
    [][CycleCompletes =>
         LET a == Len(streams') > 0 /\ error' = Null
             b == Len(streams') = 0 /\ error' = MsgNoValid
             c == error' \in TransportMessages \cup FormatMessages
         IN  \/ a /\ ~b /\ ~c
             \/ ~a /\ b /\ ~c
             \/ ~a /\ ~b /\ c]_vars

\* C8: for every response array, whatever its elements, the cycle stays on
\* the success path and publishes exactly the elements satisfying the
\* validity rule.
C8_ArrayNeverFails ==
    [][\A c \in Cycles : \A data \in ArrayBodies :
          JsonResolves(c, data) =>
             /\ lastOutcome' \in {"ok", "empty"}
             /\ streams' = ValidEntries(data.items)]_vars

\* C9: entries change only in the step that completes a cycle, the step
\* that sets isLoading to false and, for an empty result, lastError; so no
\* state has entries already replaced by a cycle that is still in flight.
C9_AtomicPublication ==
    [][streams' # streams =>
          /\ \E c \in Cycles : pc[c] = "parsing" /\ pc'[c] = "idle"
          /\ loading' = FALSE
          /\ Len(streams') = 0 => error' = MsgNoValid]_vars

\* A cycle has replaced the published entries by an empty list.
C9_Witness ==
    /\ lastOutcome = "empty"
    /\ Len(streams) = 0
    /\ error = MsgNoValid
    /\ ~loading

\* C10 as stated: in every reachable state, isLoading implies that a cycle
\* is in flight.
C10_Original == loading => SomeInFlight

\* C10 as amended: in every reachable state, isLoading implies that a cycle
\* is in flight or that the loader has just been created and its mount
\* effect has not run; and the first step of load() sets isLoading true and
\* issues the request.
C10_Amended ==
    /\ [](loading => (SomeInFlight \/ ~mounted))
    /\ [][\A c \in Cycles : LoadStreamsBegin(c) => (loading' = TRUE /\ pc'[c] = "fetching")]_vars

\* A reload is in flight after an earlier cycle completed: isLoading is true.
C10_Witness ==
    /\ mounted
    /\ lastOutcome = "ok"
    /\ SomeInFlight
    /\ loading

\* What one load() publishes from the loader's initial state when the body
\* is source: the validated list, or nothing when validation throws.
SingleLoadEntries == IF Validated(source).threw THEN <<>> ELSE Validated(source).value

\* C11: with a stable source, two refresh() calls in immediate succession
\* lead, whatever the order in which the two cycles complete, to a state at
\* rest whose entries are those a single load() publishes; and every state
\* at rest after a completed cycle has those entries.
C11_RefreshTwiceConverges ==
    /\ [](AllIdle /\ lastOutcome # "none" => streams = SingleLoadEntries)
    /\ (Cardinality(InFlightCycles) >= 2) ~> (AllIdle /\ streams = SingleLoadEntries)

\* The two refresh cycles overlapped, the first has completed and published
\* [A, B], the second is still in flight.
C11_Witness ==
    /\ pc[1] = "idle"
    /\ pc[2] = "parsing"
    /\ lastOutcome = "ok"
    /\ streams = <<EntryA, EntryB>>

\* A retry control is offered and clicking it starts a cycle.
RetryOffered ==
    \/ HeaderRefreshEnabled /\ ENABLED ClickRefresh
    \/ ErrorPanelShown /\ ENABLED ClickTryAgain

\* C12 as stated: after a cycle completes with a failure or an empty result
\* the page offers an enabled retry control that starts a new cycle, and in
\* no reachable state are all retry controls disabled or hidden while no
\* cycle is in flight.
C12_Original ==
    /\ (~SomeInFlight /\ lastOutcome \in {"fail", "empty"}) => RetryOffered
    /\ ~SomeInFlight => RetryOffered

\* C12 as amended: the same, except for the state between the creation of
\* the loader and its mount effect, where isLoading is true, the Refresh
\* button is disabled and the automatic first load has not started.
C12_Amended ==
    /\ (~SomeInFlight /\ lastOutcome \in {"fail", "empty"}) => RetryOffered
    /\ (~SomeInFlight /\ mounted) => RetryOffered

\* A cycle ended with no valid entry: the error panel with Try Again is
\* shown and the Refresh button is enabled.
C12_Witness ==
    /\ lastOutcome = "empty"
    /\ AllIdle
    /\ ErrorPanelShown
    /\ HeaderRefreshEnabled


CycleStarts == \E c \in Cycles : pc[c] = "idle" /\ pc'[c] # "idle"
CycleAdvances == \E c \in Cycles : pc[c] = "fetching" /\ pc'[c] = "parsing"

\* C13: a cycle that ends with a failure or with no valid entry emits exactly
\* one notification, in its last step, and leaves an error message; a cycle
\* that publishes at least one entry emits none; the steps of a cycle before
\* its end emit none, apart from the "Refreshing..." notice of refreshStreams.
C13_OneNotificationPerFailedCycle ==
    [][ /\ (CycleCompletes /\ lastOutcome' \in {"fail", "empty"}) =>
               /\ toasted' \in {<<ToastLoadingError>>, <<ToastNoContent>>}
               /\ error' # Null
        /\ (CycleCompletes /\ lastOutcome' = "ok") =>
               /\ toasted' = <<>>
               /\ Len(streams') >= 1
        /\ CycleAdvances => toasted' = <<>>
        /\ CycleStarts => toasted' \in {<<>>, <<ToastRefreshing>>}
      ]_vars

\* A cycle has just ended in the catch block because an element of the body
\* was null, with its one "Loading Error" notification.
C13_Witness ==
    /\ toasted = <<ToastLoadingError>>
    /\ error = MsgNullRead
    /\ lastOutcome = "fail"


\* The step ends cycle c in the catch block: the failure is a message in
\* error, the cycle is over and loading is false.
EndsCaught(c) ==
    /\ pc'[c] = "idle"
    /\ Truthy(error')
    /\ loading' = FALSE
    /\ lastOutcome' = "fail"

\* C14: a cycle in flight accepts every outcome of its pending await, and
\* each failing outcome (a rejected fetch, a response that is not ok, a body
\* that does not parse, a body that is not an array, an exception inside the
\* filter) ends the cycle with the failure as a message in error; a step of
\* a cycle in flight leads only to the next await or to the end of the cycle.
C14_NoFailureEscapes ==
    /\ [](\A c \in Cycles :
            /\ pc[c] = "fetching" =>
                  /\ \A err \in FetchRejections : ENABLED FetchRejects(c, err)
                  /\ \A ok \in BOOLEAN : ENABLED FetchResolves(c, ok)
            /\ pc[c] = "parsing" =>
                  /\ \A err \in JsonRejections : ENABLED JsonRejects(c, err)
                  /\ \A v \in Validations : ENABLED Completes(c, v))
    /\ [][\A c \in Cycles :
            /\ \A err \in FetchRejections : FetchRejects(c, err) => EndsCaught(c)
            /\ FetchResolves(c, FALSE) => EndsCaught(c)
            /\ \A err \in JsonRejections : JsonRejects(c, err) => EndsCaught(c)
            /\ \A v \in Validations : (v.threw /\ Completes(c, v)) => EndsCaught(c)
            /\ (InFlight(c) /\ pc'[c] # pc[c]) =>
                  \/ pc[c] = "fetching" /\ pc'[c] = "parsing"
                  \/ pc'[c] = "idle" /\ loading' = FALSE
         ]_vars

\* A cycle has ended in the catch block on a rejection that is not an Error:
\* the fallback message is in error and nothing is in flight.
C14_Witness ==
    /\ AllIdle
    /\ error = MsgDefault
    /\ toasted = <<ToastLoadingError>>
    /\ ~loading


\* C15: a cycle whose body fails to parse, and a cycle whose parsed body is
\* not an array, both end with error = 'Invalid streams data format'.
C15_ParseFailureIsInvalidFormat ==
    [][\A c \in Cycles :
          /\ \A err \in JsonRejections :
                JsonRejects(c, err) => error' = MsgInvalidFormat
          /\ \A data \in NonArrayBodies :
                JsonResolves(c, data) => error' = MsgInvalidFormat
      ]_vars


\* C16: refreshStreams can be called whenever a cycle slot is free, cycles
\* in flight or not; the call emits the "Refreshing..." notice and nothing
\* else, starts exactly one new cycle at its first await, and leaves every
\* cycle already in flight where it was, still able to settle.
C16_RefreshAlwaysStartsACycle ==
    /\ [](SomeIdle => ENABLED RefreshStreams)
    /\ [][RefreshStreams =>
            /\ toasted' = <<ToastRefreshing>>
            /\ pc[NewCycle] = "idle" /\ pc'[NewCycle] = "fetching"
            /\ \A c \in Cycles \ {NewCycle} : pc'[c] = pc[c]
            /\ Cardinality(InFlightCycles') = Cardinality(InFlightCycles) + 1
         ]_vars
    /\ [](\A c \in Cycles :
            /\ pc[c] = "fetching" => ENABLED FetchSettles(c)
            /\ pc[c] = "parsing" => ENABLED JsonSettles(c))

\* refreshStreams has just been called while another cycle was in flight:
\* the notice is out and two cycles are in flight.
C16_Witness ==
    /\ toasted = <<ToastRefreshing>>
    /\ Cardinality(InFlightCycles) = 2
    /\ mounted


\* C17: a cycle changes phase only in these ways: from idle to the request
\* (fetching), and only when loadStreams is called by Mount, retryLoad or
\* refreshStreams; from the request to the validation of the body (parsing),
\* writing nothing; from the request straight to its end, only with a
\* failure and streams untouched; from the validation to its end, where it
\* publishes the list or a failure.  The request is issued once, on entry,
\* and no step leads back to it from within the cycle.
C17_CyclePhases ==
    [][\A c \in Cycles : pc'[c] # pc[c] =>
          \/ /\ pc[c] = "idle" /\ pc'[c] = "fetching"
             /\ Mount \/ RetryLoad \/ RefreshStreams
          \/ /\ pc[c] = "fetching" /\ pc'[c] = "parsing"
             /\ UNCHANGED <<streams, loading, error, lastOutcome>>
          \/ /\ pc[c] = "fetching" /\ pc'[c] = "idle"
             /\ lastOutcome' = "fail" /\ error' \in TransportMessages
             /\ UNCHANGED streams
          \/ /\ pc[c] = "parsing" /\ pc'[c] = "idle"
             /\ \/ lastOutcome' = "fail" /\ UNCHANGED streams
                \/ lastOutcome' \in {"ok", "empty"}
      ]_vars

\* A cycle has gone from the request straight to its end on a network
\* failure, and no cycle is in flight after it.
C17_Witness ==
    /\ AllIdle
    /\ error = MsgNetwork
    /\ lastOutcome = "fail"
    /\ toasted = <<ToastLoadingError>>


\* C18: before the mount effect the state is streams = [], loading = true,
\* error = null with no cycle in flight; the mount effect can run then and
\* only then, and it starts one cycle without a notice; until the first
\* completion that cycle is the only one in flight and loading is true.
C18_CreationAndAutomaticLoad ==
    /\ [](~mounted =>
            /\ streams = <<>> /\ loading /\ error = Null
            /\ ~SomeInFlight /\ lastOutcome = "none"
            /\ ENABLED Mount)
    /\ [](mounted => ~ENABLED Mount)
    /\ [][Mount =>
            /\ ~mounted /\ mounted'
            /\ Cardinality(InFlightCycles') = 1
            /\ toasted' = <<>>]_vars
    /\ []((mounted /\ lastOutcome = "none") =>
            /\ loading
            /\ Cardinality(InFlightCycles) = 1)

\* The automatic first cycle is awaiting its body, nothing has completed
\* yet and loading is still true.
C18_Witness ==
    /\ mounted
    /\ lastOutcome = "none"
    /\ pc[1] = "parsing"
    /\ loading
    /\ streams = <<>>


\* C19: when a cycle completes while another is in flight, loading becomes
\* false; and in every state where loading is false and a cycle is in
\* flight, the header's Refresh button is enabled and clicking it starts
\* yet another cycle.
C19_LoadingFalseWhileInFlight ==
    /\ [][(CycleCompletes /\ SomeInFlight') => loading' = FALSE]_vars
    /\ []((~loading /\ SomeInFlight) =>
            /\ HeaderRefreshEnabled
            /\ ENABLED ClickRefresh)

\* Two cycles overlapped and the first has completed: loading is false, the
\* other cycle is still in flight and Refresh is enabled.
C19_Witness ==
    /\ ~loading
    /\ SomeInFlight
    /\ HeaderRefreshEnabled
    /\ lastOutcome # "none"


\* C20: with the page as the only caller, at most one cycle is in flight;
\* while loading is true the Refresh button is disabled and the panels with
\* Try Again and Refresh Library are not rendered, so no control can start
\* a cycle; and loading is true whenever a cycle is in flight.
C20_PageNeverOverlapsCycles ==
    /\ Cardinality(InFlightCycles) <= 1
    /\ loading =>
          /\ ~HeaderRefreshEnabled /\ ~ErrorPanelShown /\ ~EmptyViewShown
          /\ ~ENABLED ClickRefresh
          /\ ~ENABLED ClickTryAgain
          /\ ~ENABLED ClickRefreshLibrary
    /\ SomeInFlight => loading
    /\ (SomeInFlight /\ mounted) => ~ENABLED Mount

\* The cycle a click on Refresh started is the only one in flight, and
\* loading is true.
C20_Witness ==
    /\ toasted = <<ToastRefreshing>>
    /\ Cardinality(InFlightCycles) = 1
    /\ loading
    /\ lastOutcome # "none"


\* C21: in every reachable state, cycles overlapping or not, loading = false
\* implies that error is set or streams is not empty; so the "No Movies
\* Found" view is never rendered and its Refresh Library button can never
\* be clicked.
C21_EmptyViewNeverRendered ==
    /\ ~loading => (Truthy(error) \/ Len(streams) > 0)
    /\ ~EmptyViewShown
    /\ ~ENABLED ClickRefreshLibrary

\* Nothing is being shown as loading and the list is empty, with a cycle
\* still in flight: what keeps the empty view away is the error message.
C21_Witness ==
    /\ ~loading
    /\ Len(streams) = 0
    /\ error = MsgNoValid
    /\ SomeInFlight


\* C22: in every reachable state, cycles overlapping or not, loading = true
\* implies error = null; a step that writes a message into error also sets
\* loading false, and a step that starts a cycle sets loading true and
\* clears error; so the skeletons and the error panel are never rendered
\* together.
C22_LoadingExcludesError ==
    /\ [](loading => error = Null)
    /\ [][(error' # error /\ error' # Null) => loading' = FALSE]_vars
    /\ [][CycleStarts => (loading' = TRUE /\ error' = Null)]_vars
    /\ [](~(SkeletonShown /\ ErrorPanelShown))

\* Two cycles were started after a cycle that ended with no valid entry:
\* its message has been cleared and loading is true.
C22_Witness ==
    /\ loading
    /\ error = Null
    /\ lastOutcome = "empty"
    /\ Cardinality(InFlightCycles) = 2


\* C23: a cycle that ends in failure leaves streams as it was, and after it
\* the page renders the error panel and not the grid; the grid is rendered
\* exactly when loading is false, error is absent and streams is not empty;
\* and whenever error is set, the error panel is rendered and the grid is
\* not, whatever streams holds.
C23_ErrorHidesCatalog ==
    /\ [][(CycleCompletes /\ lastOutcome' = "fail") =>
             /\ streams' = streams
             /\ ErrorPanelShown'
             /\ ~GridShown']_vars
    /\ [](GridShown <=> (~loading /\ ~Truthy(error) /\ Len(streams) > 0))
    /\ [](error # Null => (ErrorPanelShown /\ ~GridShown))

\* A refresh failed on the network after a load that had published two
\* entries: they are still in streams, and the page shows the error panel.
C23_Witness ==
    /\ lastOutcome = "fail"
    /\ error = MsgNetwork
    /\ streams = <<EntryB, EntryA>>
    /\ ErrorPanelShown
    /\ ~GridShown


\* C24: a step that starts a cycle, moves it to its second await or ends it
\* leaves selectedStream as it is; a step that changes selectedStream leaves
\* streams, loading, error and every cycle as they are; selecting the card of
\* streams[i] sets selectedStream to it, and closing the player sets it to
\* null.
C24_SelectionIndependentOfCatalog ==
    [][ /\ (CycleStarts \/ CycleAdvances \/ CycleCompletes) =>
              selectedStream' = selectedStream
        /\ selectedStream' # selectedStream =>
              UNCHANGED <<streams, loading, error, pc>>
        /\ \A i \in 1..MaxLen : HandlePlayStream(i) =>
              /\ selectedStream' = streams[i]
              /\ UNCHANGED <<streams, loading, error, pc>>
        /\ HandleClosePlayer =>
              /\ selectedStream' = NullValue
              /\ UNCHANGED <<streams, loading, error, pc>>
      ]_vars

\* The player is open on a stream that the list published since then no
\* longer contains.
C24_Witness ==
    /\ selectedStream = EntryA
    /\ streams = <<EntryB>>
    /\ lastOutcome = "ok"
    /\ AllIdle

====
